---------------------------- MODULE Spec2Model ----------------------------
(***************************************************************************)
(* A model of senpai (src/senpai.py): the Cgroup accessor that clamps,     *)
(* aligns and writes memory.high, and the Senpai controller that           *)
(* accumulates psi memory pressure and loosens, holds or tightens once per *)
(* tick.                                                                   *)
(*                                                                         *)
(* Numbers.  Python floats are modelled as exact rationals <<num, den>>    *)
(* in lowest terms with den > 0, and int() as truncation toward zero.      *)
(* Byte counts are ordinary integers; the model's values are kept small    *)
(* enough for TLC, and the value read_limit returns for "max" is           *)
(* 2^LimitBits - 1 (LimitBits is 64 in the program).                       *)
(***************************************************************************)
EXTENDS Integers, Sequences, FiniteSets, TLC

VARIABLES
    pc,           \* "new" before Senpai(conf), "run" in Senpai.run, "dead" after an exception
    conf,         \* the parsed arguments (immutable)
    limit,        \* Cgroup.limit
    memHigh,      \* content of the memory.high file
    last_total,   \* Senpai.last_total
    integral,     \* Senpai.integral
    grace_ticks,  \* Senpai.grace_ticks
    op,           \* history: what the last handler read, computed and wrote
    nticks,       \* history: ticks completed since construction (saturates at MaxTicks)
    since,        \* history: ticks completed since the last adjustment or the construction
    adjusted      \* history: an adjustment has been made

vars == <<pc, conf, limit, memHigh, last_total, integral, grace_ticks, op, nticks, since, adjusted>>

---------------------------------------------------------------------------
(* Bounds of the model *)

LimitBits == 17
MaxTicks == 8
MaxGraceDebt == 3

(* Program constants and encodings *)

PageSize == 4096
NoneVal == -1
MaxStr == -2

UnboundedLimit == 2^LimitBits - 1

---------------------------------------------------------------------------
(* Exact rational arithmetic standing for Python's float expressions *)

Abs(x) == IF x < 0 THEN -x ELSE x

RECURSIVE GCD(_, _)
GCD(a, b) == IF b = 0 THEN a ELSE GCD(b, a % b)

Rat(n, d) ==
    LET g == GCD(Abs(n), Abs(d))
        s == IF d < 0 THEN -1 ELSE 1
    IN  <<(s * n) \div g, (s * d) \div g>>

RatMul(a, b) ==
    LET g1 == GCD(Abs(a[1]), b[2])
        g2 == GCD(Abs(b[1]), a[2])
    IN  Rat((a[1] \div g1) * (b[1] \div g2), (a[2] \div g2) * (b[2] \div g1))

RatDivInt(a, k) == RatMul(a, Rat(1, k))

RatSquare(a) == <<a[1] * a[1], a[2] * a[2]>>

RatNeg(a) == <<-a[1], a[2]>>

RatLeq(a, b) == a[1] * b[2] <= b[1] * a[2]

RatLess(a, b) == a[1] * b[2] < b[1] * a[2]

\* Python's min(a, b): b unless a < b ... both orders give the same number
RatMin(a, b) == IF RatLess(b, a) THEN b ELSE a

Max(a, b) == IF a >= b THEN a ELSE b

Min(a, b) == IF a <= b THEN a ELSE b

\* int(x + x * f) for an integer x and a rational f: truncation toward zero
TruncScale(x, f) ==
    LET y  == x * f[1]
        fl == x + (y \div f[2])
    IN  IF fl >= 0 \/ y % f[2] = 0 THEN fl ELSE fl + 1

---------------------------------------------------------------------------
(* Configurations and the values the environment supplies *)

Cfg(mn, mx, iv, pr, mp, mb, cp, cb) ==
    [min_size |-> mn, max_size |-> mx, interval |-> iv, pressure |-> pr,
     max_probe |-> mp, max_backoff |-> mb, coeff_probe |-> cp, coeff_backoff |-> cb]

\* the argparse defaults, with sizes and pressure scaled down; then smaller
\* windows and steeper curves, an unaligned range, interval 0, and a
\* pressure target of 0
Configs ==
    { Cfg(2 * PageSize, 6 * PageSize, 6, 10, <<1, 100>>, <<1, 1>>, 10, 20),
      Cfg(PageSize, 4 * PageSize, 2, 2, <<1, 2>>, <<1, 2>>, 2, 2),
      Cfg(5000, 10000, 1, 2, <<1, 4>>, <<1, 1>>, 1, 2),
      Cfg(0, 2 * PageSize, 0, 2, <<1, 2>>, <<1, 4>>, 2, 2),
      Cfg(PageSize, 3 * PageSize, 1, 0, <<1, 2>>, <<1, 2>>, 2, 2) }

\* values of total= in memory.pressure
PsiTotals == {0, 1, 2, 4, 50, 250}

\* values of memory.current
Usages == {0, 9000, 60000}

\* what another writer can leave in memory.high
ExtLimits == {MaxStr, 1000}

---------------------------------------------------------------------------
(* Cgroup *)

read_limit(file) == IF file = MaxStr THEN UnboundedLimit ELSE file

Clamp(l) == Max(conf.min_size, Min(conf.max_size, l))

\* rounding up to the next page instead of clearing the low 12 bits
Align_Up(l) == l + ((PageSize - (l % PageSize)) % PageSize)

Align(l) == l - (l % PageSize)

\* import_limit without the reset to memory.current
import_limit_NoReset(self_limit, readback, candidate, usage) ==
    Align(Clamp(candidate))

\* the value import_limit stores, given the read-back limit and, on the
\* reset path, the usage it reads
import_limit(self_limit, readback, candidate, usage) ==
    LET l == IF readback # self_limit THEN usage ELSE candidate
    IN  Align(Clamp(l))

\* scale_limit truncating the product before adding it: x + int(x * factor)
scale_limit_TruncProduct(x, factor) ==
    LET y == x * factor[1]
        q == y \div factor[2]
    IN  x + (IF y >= 0 \/ y % factor[2] = 0 THEN q ELSE q + 1)

\* the candidate scale_limit hands to set_limit
scale_limit(x, factor) == TruncScale(x, factor)

---------------------------------------------------------------------------
(* Senpai: the two response curves; err, adj and the result are the three
   assignments of tick, each bound to its value *)

\* the backoff curve without the cap at max_backoff
BackoffAdj_NoCap(c, integ) ==
    CHOOSE f \in { RatMul(adj, c.max_backoff) :
                     adj \in { RatSquare(RatDivInt(err, c.coeff_backoff)) :
                                 err \in {Rat(integ, c.pressure)} } } : TRUE

BackoffAdj(c, integ) ==
    CHOOSE f \in { RatMin(RatMul(adj, c.max_backoff), c.max_backoff) :
                     adj \in { RatSquare(RatDivInt(err, c.coeff_backoff)) :
                                 err \in {Rat(integ, c.pressure)} } } : TRUE

\* the probe curve dividing by the backoff coefficient
ProbeAdj_WrongCoeff(c, integ) ==
    CHOOSE f \in { RatMin(RatMul(adj, c.max_probe), c.max_probe) :
                     adj \in { RatSquare(RatDivInt(err, c.coeff_backoff)) :
                                 err \in {Rat(c.pressure, Max(integ, 1))} } } : TRUE

\* the probe curve without the cap at max_probe
ProbeAdj_NoCap(c, integ) ==
    CHOOSE f \in { RatMul(adj, c.max_probe) :
                     adj \in { RatSquare(RatDivInt(err, c.coeff_probe)) :
                                 err \in {Rat(c.pressure, Max(integ, 1))} } } : TRUE

ProbeAdj(c, integ) ==
    CHOOSE f \in { RatMin(RatMul(adj, c.max_probe), c.max_probe) :
                     adj \in { RatSquare(RatDivInt(err, c.coeff_probe)) :
                                 err \in {Rat(c.pressure, Max(integ, 1))} } } : TRUE

\* the constructor starting with the window tick uses after an adjustment
InitialGrace_AsAfterAdjust(c) == c.interval - 1

\* grace_ticks as __init__ sets it
InitialGrace(c) == c.interval

\* tick leaving no grace window behind an adjustment
GraceAfterAdjust_None(c) == 0

\* tick restarting the window at the constructor's value
GraceAfterAdjust_Full(c) == c.interval

\* grace_ticks as tick sets it after adjust()
GraceAfterAdjust(c) == c.interval - 1

NoOp == [kind |-> "none", prev |-> NoneVal, x1 |-> NoneVal, x2 |-> NoneVal,
         usage |-> NoneVal, factor |-> <<0, 1>>, cand |-> NoneVal,
         integ |-> 0, grace0 |-> 0, gap |-> 0, first |-> FALSE, writes |-> 0,
         written |-> NoneVal]

Init ==
    /\ pc = "new"
    /\ conf \in Configs
    /\ limit = NoneVal
    /\ memHigh \in ExtLimits
    /\ last_total = 0
    /\ integral = 0
    /\ grace_ticks = 0
    /\ op = NoOp
    /\ nticks = 0
    /\ since = 0
    /\ adjusted = FALSE

\* set_limit writing the limit argument instead of the stored limit
WrittenValue_Argument(stored, candidate) == candidate

\* what set_limit writes to memory.high: str(self.limit)
WrittenValue(stored, candidate) == stored

\* Senpai.__init__: Cgroup.__init__ (psi probe, set_limit(None)), then the
\* baseline total, integral and grace counter
Construct ==
    /\ pc = "new"
    /\ \E usage \in Usages, total \in PsiTotals :
         LET x2 == read_limit(memHigh)
             l  == import_limit(limit, x2, NoneVal, usage)
             w  == WrittenValue(l, NoneVal)
         IN  /\ limit' = l
             /\ memHigh' = w
             /\ last_total' = total
             /\ op' = [NoOp EXCEPT !.kind = "construct", !.prev = limit, !.x2 = x2,
                                   !.usage = usage, !.writes = 1, !.written = w]
    /\ integral' = 0
    /\ grace_ticks' = InitialGrace(conf)
    /\ pc' = "run"
    /\ UNCHANGED <<conf, nticks, since, adjusted>>

Bump(n) == Min(n + 1, MaxTicks)

\* "self.grace_ticks -= 1"; a counter that has gone negative (interval 0)
\* falls without end, and is kept at -MaxGraceDebt once it is there: tick
\* tests only whether it is zero
Lower(n) == IF n > -MaxGraceDebt THEN n - 1 ELSE n

\* adjust() resetting the integral only when the limit moved
Adjust_ResetIfMoved(kind, factor, integ, x2, usage) ==
    LET x1   == read_limit(memHigh)
        cand == scale_limit(x1, factor)
        div  == x2 # limit
        l    == import_limit(limit, x2, cand, usage)
        w    == WrittenValue(l, cand)
    IN  /\ limit' = l
        /\ memHigh' = w
        /\ integral' = IF l # limit THEN 0 ELSE integ
        /\ op' = [kind |-> kind, prev |-> limit, x1 |-> x1, x2 |-> x2,
                  usage |-> IF div THEN usage ELSE NoneVal,
                  factor |-> factor, cand |-> cand, integ |-> integ,
                  grace0 |-> grace_ticks,
                  gap |-> Bump(since), first |-> ~adjusted,
                  writes |-> 1, written |-> w]

\* adjust() without the reset of the integral
Adjust_KeepsIntegral(kind, factor, integ, x2, usage) ==
    LET x1   == read_limit(memHigh)
        cand == scale_limit(x1, factor)
        div  == x2 # limit
        l    == import_limit(limit, x2, cand, usage)
        w    == WrittenValue(l, cand)
    IN  /\ limit' = l
        /\ memHigh' = w
        /\ integral' = integ
        /\ op' = [kind |-> kind, prev |-> limit, x1 |-> x1, x2 |-> x2,
                  usage |-> IF div THEN usage ELSE NoneVal,
                  factor |-> factor, cand |-> cand, integ |-> integ,
                  grace0 |-> grace_ticks,
                  gap |-> Bump(since), first |-> ~adjusted,
                  writes |-> 1, written |-> w]

\* Senpai.adjust(factor) with the values its reads return: x1 in scale_limit,
\* x2 in import_limit, usage on the reset path
Adjust(kind, factor, integ, x2, usage) ==
    LET x1   == read_limit(memHigh)
        cand == scale_limit(x1, factor)
        div  == x2 # limit
        l    == import_limit(limit, x2, cand, usage)
        w    == WrittenValue(l, cand)
    IN  /\ limit' = l
        /\ memHigh' = w
        /\ integral' = 0
        /\ op' = [kind |-> kind, prev |-> limit, x1 |-> x1, x2 |-> x2,
                  usage |-> IF div THEN usage ELSE NoneVal,
                  factor |-> factor, cand |-> cand, integ |-> integ,
                  grace0 |-> grace_ticks,
                  gap |-> Bump(since), first |-> ~adjusted,
                  writes |-> 1, written |-> w]

\* the limit import_limit can read back: the file as scale_limit saw it, or
\* what another writer stored in between ("max", or the controller's own value)
Readbacks == {read_limit(memHigh), read_limit(MaxStr), limit}

\* tick testing the grace counter before the pressure
Decide_GraceFirst(integ, grace) ==
    IF grace # 0 THEN "hold"
    ELSE IF integ > conf.pressure THEN "loosen" ELSE "tighten"

\* the branch tick takes: "if self.integral > self.conf.pressure",
\* "if self.grace_ticks", else tighten
Decide(integ, grace) ==
    IF integ > conf.pressure THEN "loosen"
    ELSE IF grace # 0 THEN "hold" ELSE "tighten"

\* tick, loosen path, on the total and the limits it reads; with a pressure
\* target of 0 "self.integral / self.conf.pressure" raises and the tick is a
\* TickFail
Loosen(total, x2, usage) ==
    LET integ == integral + (total - last_total)
    IN  /\ Decide(integ, grace_ticks) = "loosen"
        /\ conf.pressure # 0
        /\ last_total' = total
        /\ \E f \in {BackoffAdj(conf, integ)} :
               Adjust("loosen", f, integ, x2, usage)
        /\ grace_ticks' = GraceAfterAdjust(conf)
        /\ nticks' = Bump(nticks)
        /\ since' = 0
        /\ adjusted' = TRUE
        /\ UNCHANGED <<pc, conf>>

\* a grace tick that also clears the integral
Hold_ResetsIntegral(total) ==
    LET integ == integral + (total - last_total)
    IN  /\ Decide(integ, grace_ticks) = "hold"
        /\ last_total' = total
        /\ integral' = 0
        /\ op' = [NoOp EXCEPT !.kind = "hold", !.prev = limit, !.integ = integ,
                              !.grace0 = grace_ticks,
                              !.gap = Bump(since), !.first = ~adjusted]
        /\ grace_ticks' = Lower(grace_ticks)
        /\ nticks' = Bump(nticks)
        /\ since' = Bump(since)
        /\ UNCHANGED <<pc, conf, limit, memHigh, adjusted>>

\* tick, grace path ("if self.grace_ticks": any non-zero counter), on the
\* total it reads
Hold(total) ==
    LET integ == integral + (total - last_total)
    IN  /\ Decide(integ, grace_ticks) = "hold"
        /\ last_total' = total
        /\ integral' = integ
        /\ op' = [NoOp EXCEPT !.kind = "hold", !.prev = limit, !.integ = integ,
                              !.grace0 = grace_ticks,
                              !.gap = Bump(since), !.first = ~adjusted]
        /\ grace_ticks' = Lower(grace_ticks)
        /\ nticks' = Bump(nticks)
        /\ since' = Bump(since)
        /\ UNCHANGED <<pc, conf, limit, memHigh, adjusted>>

\* tick, tighten path, on the total and the limits it reads
Tighten(total, x2, usage) ==
    LET integ == integral + (total - last_total)
    IN  /\ Decide(integ, grace_ticks) = "tighten"
        /\ last_total' = total
        /\ \E f \in {RatNeg(ProbeAdj(conf, integ))} :
               Adjust("tighten", f, integ, x2, usage)
        /\ grace_ticks' = GraceAfterAdjust(conf)
        /\ nticks' = Bump(nticks)
        /\ since' = 0
        /\ adjusted' = TRUE
        /\ UNCHANGED <<pc, conf>>

TickLoosen ==
    /\ pc = "run"
    /\ \E total \in PsiTotals, x2 \in Readbacks, usage \in Usages :
         total >= last_total /\ Loosen(total, x2, usage)

TickHold ==
    /\ pc = "run"
    /\ \E total \in PsiTotals :
         total >= last_total /\ Hold(total)

TickTighten ==
    /\ pc = "run"
    /\ \E total \in PsiTotals, x2 \in Readbacks, usage \in Usages :
         total >= last_total /\ Tighten(total, x2, usage)

\* another writer of memory.high
ExternalWrite ==
    /\ pc = "run"
    /\ \E v \in ExtLimits : memHigh' = v
    /\ memHigh' # memHigh
    /\ UNCHANGED <<pc, conf, limit, last_total, integral, grace_ticks, op, nticks, since, adjusted>>

\* the state of a process that has exited on an uncaught exception: its
\* objects are gone
Exited(kind) ==
    /\ pc' = "dead"
    /\ limit' = NoneVal
    /\ last_total' = 0
    /\ integral' = 0
    /\ grace_ticks' = 0
    /\ op' = [NoOp EXCEPT !.kind = kind]
    /\ nticks' = 0
    /\ since' = 0
    /\ adjusted' = FALSE
    /\ UNCHANGED conf

\* a constructor that probes memory.pressure only after set_limit(None)
StartupFail_ProbeAfterSetLimit ==
    /\ pc = "new"
    /\ Exited("startfail")
    /\ \E usage \in Usages :
         memHigh' = WrittenValue(import_limit(limit, read_limit(memHigh), NoneVal, usage),
                                 NoneVal)

\* memory.pressure cannot be read: self.pressure() raises in Cgroup.__init__,
\* before set_limit(None)
StartupFail ==
    /\ pc = "new"
    /\ Exited("startfail")
    /\ UNCHANGED memHigh

\* a later read or write of the constructor raises: read_limit, read_current
\* or write inside set_limit(None) (memory.high not written), or total()
\* after it (memory.high written)
InitFail ==
    /\ pc = "new"
    /\ Exited("initfail")
    /\ \E usage \in Usages :
         memHigh' \in {memHigh,
                       WrittenValue(import_limit(limit, read_limit(memHigh), NoneVal, usage),
                                    NoneVal)}

\* a tick whose failed read is caught and the loop goes on
TickFail_Retry ==
    /\ pc = "run"
    /\ op' = [NoOp EXCEPT !.kind = "tickfail"]
    /\ UNCHANGED <<pc, conf, limit, memHigh, last_total, integral, grace_ticks,
                   nticks, since, adjusted>>

\* a read or the write of a tick raises (total, read_limit, pressure,
\* read_current, write), or the loosen path divides by a pressure target of
\* 0: the exception leaves run(), nothing is written
TickFail ==
    /\ pc = "run"
    /\ Exited("tickfail")
    /\ UNCHANGED memHigh

Next ==
    \/ Construct
    \/ TickLoosen
    \/ TickHold
    \/ TickTighten
    \/ ExternalWrite
    \/ StartupFail
    \/ InitFail
    \/ TickFail

Spec == Init /\ [][Next]_vars

\* The controller alone with its cgroup: the total stays at the baseline the
\* constructor read, memory.high holds what the controller wrote, no read or
\* write fails, and run() keeps calling tick.
QuietHold ==
    /\ pc = "run"
    /\ Hold(last_total)

QuietTighten ==
    /\ pc = "run"
    /\ \E usage \in Usages : Tighten(last_total, read_limit(memHigh), usage)

QuietNext ==
    \/ Construct
    \/ QuietHold
    \/ QuietTighten

QuietSpec ==
    /\ Init
    /\ [][QuietNext]_vars
    /\ WF_vars(Construct)
    /\ WF_vars(QuietHold)
    /\ WF_vars(QuietTighten)

---------------------------------------------------------------------------
(* Properties *)

Adjusted == op.kind \in {"loosen", "tighten"}

SetLimitDone == op.kind \in {"construct", "loosen", "tighten"}

Diverged == op.x2 # op.prev

\* C1: every set_limit call, the one in the constructor and the ones on the
\* reset path included, stores and writes a limit L with
\* min_size <= L <= max_size and L a multiple of 4096, for every
\* configuration, page-aligned or not.
C1_LimitWithinBoundsAndAligned ==
    pc = "run" =>
        /\ conf.min_size <= limit
        /\ limit <= conf.max_size
        /\ limit % PageSize = 0
        /\ SetLimitDone => op.written = limit

\* C2: a set_limit call whose read-back limit differs from the stored one
\* (always so on the first call) drops its candidate and writes
\* align(clamp(memory.current)); a call whose read-back equals the stored
\* limit writes align(clamp(candidate)) and does not read memory.current.
C2_DivergenceResetsToUsage ==
    SetLimitDone =>
        LET src == IF Diverged THEN op.usage ELSE op.cand
            cl  == IF src < conf.min_size THEN conf.min_size
                   ELSE IF src > conf.max_size THEN conf.max_size ELSE src
        IN  /\ Diverged <=> op.usage # NoneVal
            /\ op.kind = "construct" => Diverged
            /\ op.written = cl - (cl % PageSize)

\* C2 witness: an adjustment whose read-back diverged and whose written
\* limit is the one derived from usage, not the one the candidate gives
C2_Witness ==
    /\ Adjusted
    /\ Diverged
    /\ op.written = Align(Clamp(op.usage))
    /\ op.written # Align(Clamp(op.cand))

\* C3: every adjust() that returns leaves integral = 0, whatever the factor,
\* also when the limit did not change or the reset path was taken.
C3_AdjustResetsIntegral ==
    Adjusted => integral = 0

\* C3 witness: an adjustment on accumulated pressure that left the limit
\* where it was
C3_Witness ==
    /\ Adjusted
    /\ op.integ > 0
    /\ op.written = op.prev
    /\ integral = 0

\* C4: after an adjustment grace_ticks is interval - 1, and a tighten comes
\* no sooner than interval ticks after the previous adjustment.
C4_GraceAfterAdjustment ==
    /\ Adjusted => grace_ticks = conf.interval - 1
    /\ (op.kind = "tighten" /\ ~op.first) => op.gap >= conf.interval

\* C4 witness: a tighten exactly interval ticks after a loosen or tighten,
\* with interval - 1 hold ticks in between
C4_Witness ==
    /\ op.kind = "tighten"
    /\ ~op.first
    /\ conf.interval >= 2
    /\ op.gap = conf.interval

\* C5: grace_ticks starts at interval; no tighten happens on the first
\* interval ticks; while nothing has been adjusted the counter has gone
\* down by one per tick, and a tighten that is the first adjustment happens
\* on tick interval + 1.
C5_InitialGrace ==
    /\ op.kind = "construct" => grace_ticks = conf.interval
    /\ (pc = "run" /\ ~adjusted) => grace_ticks = conf.interval - nticks
    /\ op.kind = "tighten" => nticks >= Min(conf.interval + 1, MaxTicks)
    /\ (op.kind = "tighten" /\ op.first) => nticks = conf.interval + 1

\* C5 witness: interval = 6, six hold ticks, the first tighten on tick 7
C5_Witness ==
    /\ conf.interval = 6
    /\ op.kind = "tighten"
    /\ op.first
    /\ nticks = 7


\* integrals one tick can produce from a zero integral
IntegralSamples == {b - a : a, b \in PsiTotals} \cap Nat

\* the argparse defaults of the curve parameters (sizes as in Configs)
ExampleConf ==
    Cfg(2 * PageSize, 6 * PageSize, 6, 10000, <<1, 100>>, <<1, 1>>, 10, 20)

\* f = min(x^2 * step, step) for x = num / den, stated on integers
IsCurveValue(f, num, den, step) ==
    IF num * num >= den * den
    THEN f = step
    ELSE f[1] * den * den * step[2] = num * num * step[1] * f[2]

\* C6: on a loosen tick the factor is
\* +min(((integral / pressure) / coeff_backoff)^2 * max_backoff, max_backoff):
\* positive, at most max_backoff, and no smaller than the factor of any
\* smaller integral above the target; 50000 over a target of 10000 with
\* coefficient 20 and step 1.0 gives 1/16.
C6_LoosenFactor ==
    /\ op.kind = "loosen" =>
         /\ op.integ > conf.pressure
         /\ op.factor[1] > 0 /\ op.factor[2] > 0
         /\ RatLeq(op.factor, conf.max_backoff)
         /\ IsCurveValue(op.factor, op.integ, conf.pressure * conf.coeff_backoff,
                         conf.max_backoff)
         /\ \A j \in IntegralSamples :
              (conf.pressure < j /\ j <= op.integ) =>
                  RatLeq(BackoffAdj(conf, j), op.factor)
    /\ BackoffAdj(ExampleConf, 50000) = <<1, 16>>

\* C6 witness: a loosen at five times the target, factor 1/16
C6_Witness ==
    /\ op.kind = "loosen"
    /\ op.integ = 5 * conf.pressure
    /\ conf.coeff_backoff = 20
    /\ op.factor = <<1, 16>>

\* C7: on a tighten tick the factor is
\* -min(((pressure / max(integral, 1)) / coeff_probe)^2 * max_probe, max_probe):
\* its magnitude is at most max_probe, no smaller than that of any larger
\* integral, and max_probe itself at integral = 0.
C7_TightenFactor ==
    op.kind = "tighten" =>
        LET mag == RatNeg(op.factor)
        IN  /\ mag[1] >= 0 /\ mag[2] > 0
            /\ RatLeq(mag, conf.max_probe)
            /\ IsCurveValue(mag, conf.pressure,
                            Max(op.integ, 1) * conf.coeff_probe, conf.max_probe)
            /\ \A j \in IntegralSamples :
                 j >= op.integ => RatLeq(ProbeAdj(conf, j), mag)
            /\ op.integ = 0 => mag = conf.max_probe

\* C7 as amended: the same factor, magnitude bound and monotonicity; at
\* integral = 0 the magnitude is max_probe when pressure >= coeff_probe, and
\* (pressure / coeff_probe)^2 * max_probe, below max_probe, otherwise.
C7_TightenFactorAmended ==
    op.kind = "tighten" =>
        LET mag == RatNeg(op.factor)
        IN  /\ mag[1] >= 0 /\ mag[2] > 0
            /\ RatLeq(mag, conf.max_probe)
            /\ IsCurveValue(mag, conf.pressure,
                            Max(op.integ, 1) * conf.coeff_probe, conf.max_probe)
            /\ \A j \in IntegralSamples :
                 j >= op.integ => RatLeq(ProbeAdj(conf, j), mag)
            /\ (op.integ = 0 /\ conf.pressure >= conf.coeff_probe) =>
                   mag = conf.max_probe
            /\ (op.integ = 0 /\ conf.pressure < conf.coeff_probe) =>
                   /\ RatLess(mag, conf.max_probe)
                   /\ mag = RatMul(RatSquare(Rat(conf.pressure, conf.coeff_probe)),
                                   conf.max_probe)

\* C7 witness: a tighten below the cap, on a non-zero integral
C7_Witness ==
    /\ op.kind = "tighten"
    /\ op.integ > 1
    /\ RatLess(RatNeg(op.factor), conf.max_probe)

\* C8: the loosen factor is max_backoff exactly when
\* integral >= coeff_backoff * pressure, and the tighten factor's magnitude
\* is max_probe exactly when max(integral, 1) <= pressure / coeff_probe.
C8_MaximumsAtDocumentedLevels ==
    /\ op.kind = "loosen" =>
         (op.factor = conf.max_backoff
            <=> op.integ >= conf.coeff_backoff * conf.pressure)
    /\ op.kind = "tighten" =>
         (RatNeg(op.factor) = conf.max_probe
            <=> Max(op.integ, 1) * conf.coeff_probe <= conf.pressure)

\* C8 witness: a loosen with the integral exactly at coeff_backoff * pressure
C8_Witness ==
    /\ op.kind = "loosen"
    /\ op.integ = conf.coeff_backoff * conf.pressure
    /\ op.factor = conf.max_backoff

\* C9: when memory.high reads "max" and scale_limit is applied with a shrink
\* factor in [-1, 0), the value written is finite, within
\* [min_size, max_size] and page-aligned.
C9_UnboundedShrinkStaysInBounds ==
    (op.kind = "tighten" /\ op.x1 = UnboundedLimit) =>
        /\ 0 <= op.cand /\ op.cand <= UnboundedLimit
        /\ conf.min_size <= op.written
        /\ op.written <= conf.max_size
        /\ op.written % PageSize = 0

\* C10: without divergence, scale_limit(factor) on a read limit L writes
\* align(clamp(trunc(L + L * factor))), for loosen and tighten factors;
\* L = 1000 with factor 0.5 gives the candidate 1500.
C10_ScaleLimitWritesScaledCandidate ==
    /\ (Adjusted /\ ~Diverged) =>
         LET n  == op.factor[1]
             d  == op.factor[2]
             k  == op.cand - op.x1
             cl == IF op.cand < conf.min_size THEN conf.min_size
                   ELSE IF op.cand > conf.max_size THEN conf.max_size ELSE op.cand
         IN  /\ op.cand >= 0
             /\ k * d <= op.x1 * n
             /\ op.x1 * n < (k + 1) * d
             /\ op.written = cl - (cl % PageSize)
             /\ limit = op.written
    /\ scale_limit(1000, <<1, 2>>) = 1500

\* C10 witness: a loosen by one half of a read limit of 1000, not diverged
C10_Witness ==
    /\ op.kind = "loosen"
    /\ ~Diverged
    /\ op.x1 = 1000
    /\ op.factor = <<1, 2>>
    /\ op.cand = 1500

\* C11: every set_limit that completes writes memory.high once, and writes
\* the value it stored in Cgroup.limit; right after it memory.high reads
\* back as the stored limit, so a divergence check made then does not fire.
C11_SetLimitWritesStoredLimit ==
    /\ [](SetLimitDone => (op.writes = 1 /\ op.written = limit))
    /\ [][(SetLimitDone' /\ op' # op) =>
              (memHigh' = op'.written /\ read_limit(memHigh') = limit')]_vars

\* C11 witness: after an adjustment that took the reset path, memory.high
\* holds the stored limit
C11_Witness ==
    /\ Adjusted
    /\ Diverged
    /\ op.writes = 1
    /\ read_limit(memHigh) = limit

\* C12: when memory.pressure cannot be read at startup the constructor
\* fails before its set_limit(None): the process is dead, no tick has run
\* or will run, and memory.high is what it was.
C12_StartupProbeFailure ==
    /\ [](op.kind = "startfail" => (pc = "dead" /\ nticks = 0 /\ limit = NoneVal))
    /\ [][op'.kind = "startfail" => memHigh' = memHigh]_vars
    /\ [][op.kind = "startfail" => (pc' = "dead" /\ nticks' = 0 /\ memHigh' = memHigh)]_vars

\* C12 witness: the process dead on the probe, memory.high still as found
C12_Witness ==
    /\ pc = "dead"
    /\ op.kind = "startfail"
    /\ memHigh \in ExtLimits

\* C13: a read or write failure during a tick ends the controller: the tick
\* is not retried, no later tick runs and memory.high is not written again.
C13_TickFailureTerminates ==
    /\ [](op.kind = "tickfail" => pc = "dead")
    /\ [][(op'.kind = "tickfail" /\ op.kind # "tickfail") => memHigh' = memHigh]_vars
    /\ [][op.kind = "tickfail" => UNCHANGED <<pc, memHigh, limit, nticks, op>>]_vars

\* C13 witness: the controller dead on a tick, memory.high holding the last
\* limit it wrote
C13_Witness ==
    /\ pc = "dead"
    /\ op.kind = "tickfail"
    /\ memHigh >= 0
    /\ memHigh % PageSize = 0


IsTick == op.kind \in {"loosen", "hold", "tighten"}

\* C14: the grace window suppresses only tightening: a completed tick whose
\* integral (with this tick's delta added) exceeds the pressure target is a
\* loosen, whatever the grace counter was, and never a tighten or a hold; a
\* tick at or below the target never loosens; a tick makes at most one
\* adjustment (one write of memory.high).
C14_GraceSuppressesOnlyTighten ==
    IsTick =>
        /\ (op.integ > conf.pressure) <=> (op.kind = "loosen")
        /\ op.writes = (IF Adjusted THEN 1 ELSE 0)

C14_Witness == op.kind = "loosen" /\ op.grace0 > 0 /\ ~op.first

\* C15: a hold tick (integral at or below the target after the delta, grace
\* counter positive) writes nothing, leaves Cgroup.limit and memory.high as
\* they were, lowers the grace counter by exactly 1 and keeps the integral at
\* old integral + delta.
C15_HoldTickFrame ==
    [][(op'.kind = "hold" /\ grace_ticks' # grace_ticks /\ grace_ticks > 0) =>
          /\ limit' = limit
          /\ memHigh' = memHigh
          /\ op'.writes = 0
          /\ grace_ticks' = grace_ticks - 1
          /\ integral' = integral + (last_total' - last_total)
          /\ integral' <= conf.pressure]_vars

C15_Witness ==
    /\ op.kind = "hold"
    /\ op.grace0 > 0
    /\ op.writes = 0
    /\ integral > 0
    /\ integral = op.integ

\* C16: with a cumulative total that never decreases, the integral is never
\* negative, and after every completed tick 0 <= integral <= pressure target.
C16_IntegralWithinTarget ==
    /\ integral >= 0
    /\ (pc = "run" => integral <= conf.pressure)
    /\ (IsTick => op.integ >= 0)

C16_Witness == op.kind = "hold" /\ integral = conf.pressure /\ integral > 0

\* C17: when import_limit sees no divergence (the limit it reads back equals
\* Cgroup.limit), a loosen never lowers the limit and a tighten never raises
\* it.
C17_AdjustmentDirection ==
    (Adjusted /\ ~Diverged) =>
        /\ (op.kind = "loosen" => limit >= op.prev)
        /\ (op.kind = "tighten" => limit <= op.prev)

\* C18: for interval >= 1 the grace counter stays within 0..interval: it
\* equals interval only before the first tick has completed (so before any
\* hold tick), every adjustment leaves it at interval - 1, and a hold tick
\* never takes it below 0.
C18_GraceWithinInterval ==
    (pc = "run" /\ conf.interval >= 1) =>
        /\ 0 <= grace_ticks
        /\ grace_ticks <= conf.interval
        /\ (grace_ticks = conf.interval => nticks = 0)
        /\ (Adjusted => grace_ticks = conf.interval - 1)
        /\ (op.kind = "hold" => (op.grace0 >= 1 /\ grace_ticks = op.grace0 - 1))

C18_Witness ==
    /\ conf.interval >= 2
    /\ op.kind = "hold"
    /\ grace_ticks = 0
    /\ adjusted

\* C19: under fair ticking with no failure, for every interval >= 0, once
\* the integral stays at or below the target (no more loosen ticks) tighten
\* ticks keep occurring, and for interval >= 1 a tighten comes exactly
\* interval ticks after the adjustment before it.
C19_TightenRecurs ==
    /\ (<>[](pc = "run" /\ op.kind # "loosen")) => []<>(op.kind = "tighten")
    /\ []((op.kind = "tighten" /\ ~op.first /\ conf.interval >= 1) =>
             op.gap = conf.interval)

\* the configurations C20 is about
PreC20 ==
    /\ conf.min_size % PageSize = 0
    /\ conf.min_size <= conf.max_size
    /\ RatLess(<<0, 1>>, conf.max_probe)
    /\ conf.interval >= 1

\* a tighten lowers a limit above min_size by at least a page and keeps a
\* limit at min_size where it is
TightenLowers ==
    op.kind = "tighten" =>
        /\ (op.prev > conf.min_size => limit <= op.prev - PageSize)
        /\ (op.prev = conf.min_size => limit = conf.min_size)
        /\ limit >= conf.min_size

\* C20: with a page-aligned min_size <= max_size, max_probe > 0,
\* interval >= 1, no other writer, a constant total and fair ticking, every
\* tighten lowers the limit by at least one page until it is min_size, and
\* the limit eventually equals min_size and stays there.
C20_TightenReachesMinSize ==
    /\ [](PreC20 => TightenLowers)
    /\ PreC20 => <>[](pc = "run" /\ limit = conf.min_size)

\* the pressure target is positive and the tighten factor at integral = 0
\* is not zero
ProbeStepMoves ==
    /\ conf.pressure > 0
    /\ RatLess(<<0, 1>>, ProbeAdj(conf, 0))

\* C20 as amended: the same, for configurations that also have
\* min_size >= 0 and a non-zero tighten factor at integral = 0
\* (pressure > 0).
C20_TightenReachesMinSizeAmended ==
    /\ []((PreC20 /\ conf.min_size >= 0 /\ ProbeStepMoves) => TightenLowers)
    /\ (PreC20 /\ conf.min_size >= 0 /\ ProbeStepMoves) =>
           <>[](pc = "run" /\ limit = conf.min_size)

C20_Witness ==
    /\ PreC20 /\ conf.min_size >= 0 /\ ProbeStepMoves
    /\ op.kind = "tighten"
    /\ ~op.first
    /\ op.prev = conf.min_size + PageSize
    /\ limit = conf.min_size

=============================================================================
